---- MODULE Spec2Model ----
(***************************************************************************)
(* A model of terraform-provider-appscan: the login done by                *)
(* providerConfigure, the CRUD handlers of the appscan_application         *)
(* resource and the read handlers of the asset-group and business-unit     *)
(* data sources, each an HTTP exchange with the remote AppScan REST API.   *)
(*                                                                         *)
(* A handler is one action: it builds its request(s) from the resource     *)
(* data d and the session, the remote API answers (any status, any body    *)
(* shape), and the handler's branches on the answer decide d and the       *)
(* returned error.  lastOp records what the last handler sent, what it     *)
(* received and what it returned.                                          *)
(***************************************************************************)
EXTENDS Integers, Sequences, FiniteSets, TLC

VARIABLES
    phase,      \* "unconfigured" | "configured" | "failed": the provider instance
    session,    \* the *AppScanClient returned by providerConfigure, or NoSession
    logins,     \* login requests sent by this provider instance
    d,          \* schema.ResourceData of the appscan_application resource
    remote,     \* the application the remote API holds last created, or NoApp
    orphans,    \* ids of the other applications the remote API still holds
    nextId,     \* how many ids the remote API has assigned
    ds,         \* schema.ResourceData of the data source read last
    catalog,    \* the entries of the remote AssetGroups / BusinessUnits collection
    lastOp      \* the last handler call: requests, responses, returned error

vars ==
    <<phase, session, logins, d, remote, orphans, nextId, ds, catalog, lastOp>>

----------------------------------------------------------------------------
(* Bounds of the model *)

\* ids the remote API can assign (Create is not offered once they are used up)
NumIds == 2
\* longest Items array a collection endpoint returns
MaxItems == 3

----------------------------------------------------------------------------
(* HTTP statuses: those the handlers compare against, and two more that the *)
(* remote API may answer with (Unauthorized, Internal Server Error)        *)

StatusOK == 200
StatusCreated == 201
StatusNoContent == 204
StatusNotFound == 404

OtherStatuses == {401, 500}

Statuses ==
    {StatusOK, StatusCreated, StatusNoContent, StatusNotFound} \cup OtherStatuses

Is2xx(s) == s \in {StatusOK, StatusCreated, StatusNoContent}

----------------------------------------------------------------------------
(* JSON values: a string, or something that is not a string.  A Go type    *)
(* assertion v.(string) succeeds on the first kind only.                   *)

JStr(s) == <<"string", s>>
JNum == <<"number", "0">>

\* v, ok := m[key].(string)
HasString(m, key) == key \in DOMAIN m /\ m[key][1] = "string"
StringAt(m, key) == m[key][2]

\* a map with the keys of `keys`, taken from `full`
Restrict(full, keys) == [k \in keys |-> full[k]]

----------------------------------------------------------------------------
(* Errors, named after the message the code builds *)

NoError == "nil"
ErrTransport == "http client error"
ErrDecode == "json unmarshal error"
ErrAuthStatus == "failed to authenticate via API key"
ErrNoToken == "failed to obtain token from API key login response"
ErrCreateStatus == "failed to create application"
ErrCreateNoId == "failed to retrieve application ID from API response"
ErrReadStatus == "failed to read application"
ErrUpdateStatus == "failed to update application"
ErrDeleteStatus == "failed to delete application"
ErrAssetGroupStatus == "failed to read asset group"
ErrNoAssetGroup == "no asset group found with name"
ErrMultipleAssetGroups == "multiple asset groups found with name"
ErrAssetGroupsStatus == "failed to read asset groups"
ErrBusinessUnitStatus == "failed to read BusinessUnit"
ErrNoBusinessUnit == "no BusinessUnit found with name"
ErrMultipleBusinessUnits == "multiple BusinessUnits found with name"

\* the spec's taxonomy of these errors (section 7)
AuthenticationFailed(e) == e = ErrAuthStatus
MalformedResponse(e) == e \in {ErrDecode, ErrNoToken}
CreateFailed(e) == e \in {ErrCreateStatus, ErrCreateNoId}
ReadFailed(e) ==
    e \in {ErrReadStatus, ErrAssetGroupStatus, ErrAssetGroupsStatus,
           ErrBusinessUnitStatus}
UpdateFailed(e) == e = ErrUpdateStatus
DeleteFailed(e) == e = ErrDeleteStatus
NotFound(e) == e \in {ErrNoAssetGroup, ErrNoBusinessUnit}
AmbiguousMatch(e) == e \in {ErrMultipleAssetGroups, ErrMultipleBusinessUnits}

----------------------------------------------------------------------------
(* Values the host and the remote API draw from *)

Endpoints == {"https://cloud.appscan.com/", "https://eu.cloud.appscan.com"}
KeyIds == {"key1", "key2"}
KeySecrets == {"secret1", "secret2"}
Tokens == {"tokA", "tokB"}

BusinessImpacts == {"Unspecified", "Low", "Medium", "High", "Critical"}

NoSession == [ApiEndpoint |-> "", ApiToken |-> ""]
NoApp == [Id |-> ""]

\* the id the remote API assigns to its n-th application
AppId(n) == ToString(100 + n)

\* a transport failure: client.Do returns an error and no response
NoResponse == [transport |-> FALSE]


EmptyObj == [k \in {} |-> JNum]

\* what a handler records of its call
OpRecord(op, reqs, resps, err) ==
    [op |-> op, reqs |-> reqs, resps |-> resps, err |-> err]

----------------------------------------------------------------------------
(* providerConfigure: the login *)

\* req for POST {endpoint}/api/v4/Account/ApiKeyLogin; only Content-Type is set
LoginRequest(endpoint, keyID, keySecret) ==
    [method |-> "POST",
     url |-> endpoint \o "/api/v4/Account/ApiKeyLogin",
     query |-> EmptyObj,
     auth |-> "",
     body |-> [KeyId |-> keyID, KeySecret |-> keySecret]]

\* any answer to the login: any status, any body
LoginResponses ==
    {NoResponse}
    \cup [transport : {TRUE}, status : Statuses \ {StatusOK},
          decodable : {TRUE}, obj : {EmptyObj, [Token |-> JStr("tokA")]}]
    \cup [transport : {TRUE}, status : {StatusOK}, decodable : {FALSE},
          obj : {EmptyObj}]
    \cup [transport : {TRUE}, status : {StatusOK}, decodable : {TRUE},
          obj : {EmptyObj, [Token |-> JNum], [Token |-> JStr("")]}
                \cup {[Token |-> JStr(t)] : t \in Tokens}]

\* json.Unmarshal into struct { Token string }: an absent Token leaves "",
\* a Token that is not a string is an unmarshal error
TokenDecodes(resp) ==
    resp.decodable /\ ("Token" \in DOMAIN resp.obj => HasString(resp.obj, "Token"))
TokenOf(resp) ==
    IF HasString(resp.obj, "Token") THEN StringAt(resp.obj, "Token") ELSE ""

\* a login that does not check the token for emptiness
ConfigureResult_AnyToken(endpoint, resp) ==
    IF ~resp.transport
    THEN [client |-> NoSession, err |-> ErrTransport]
    ELSE IF resp.status # StatusOK
    THEN [client |-> NoSession, err |-> ErrAuthStatus]
    ELSE IF ~TokenDecodes(resp)
    THEN [client |-> NoSession, err |-> ErrDecode]
    ELSE [client |-> [ApiEndpoint |-> endpoint, ApiToken |-> TokenOf(resp)],
          err |-> NoError]

\* the (client, err) providerConfigure returns
ConfigureResult(endpoint, resp) ==
    IF ~resp.transport
    THEN [client |-> NoSession, err |-> ErrTransport]
    ELSE IF resp.status # StatusOK
    THEN [client |-> NoSession, err |-> ErrAuthStatus]
    ELSE IF ~TokenDecodes(resp)
    THEN [client |-> NoSession, err |-> ErrDecode]
    ELSE IF TokenOf(resp) = ""
    THEN [client |-> NoSession, err |-> ErrNoToken]
    ELSE [client |-> [ApiEndpoint |-> endpoint, ApiToken |-> TokenOf(resp)],
          err |-> NoError]

\* the host configures a provider instance once
providerConfigure ==
    /\ phase = "unconfigured"
    /\ \E endpoint \in Endpoints, keyID \in KeyIds, keySecret \in KeySecrets,
          resp \in LoginResponses :
          LET r == ConfigureResult(endpoint, resp) IN
          /\ session' = r.client
          /\ phase' = IF r.err = NoError THEN "configured" ELSE "failed"
          /\ logins' = logins + 1
          /\ lastOp' = OpRecord("Configure",
                                <<LoginRequest(endpoint, keyID, keySecret)>>,
                                <<resp>>, r.err)
    /\ UNCHANGED <<d, remote, orphans, nextId, ds, catalog>>

----------------------------------------------------------------------------
(* The remote API's side of the appscan_application exchanges.  It stores   *)
(* what is posted, assigns ids in order, keeps the fields a PUT does not    *)
(* mention, and may answer any request with any status.                     *)

AppFields ==
    {"Name", "Description", "AssetGroupId", "BusinessUnitId", "BusinessImpact"}

\* the stored application a POST body creates
StoredApp(id, body) ==
    [Id |-> id,
     Name |-> body.Name,
     Description |-> body.Description,
     AssetGroupId |-> body.AssetGroupId,
     BusinessUnitId |->
         IF "BusinessUnitId" \in DOMAIN body THEN body.BusinessUnitId ELSE "",
     BusinessImpact |-> body.BusinessImpact]

\* the stored application after a PUT: fields of the body replace the stored ones
PutApp(app, body) ==
    [f \in DOMAIN app |-> IF f \in DOMAIN body THEN body[f] ELSE app[f]]

\* how the remote API can render the Id of a created application
IdForms == {"id", "empty", "missing", "number"}

CreateResponseObj(id, form) ==
    CASE form = "id" -> [Id |-> JStr(id)]
      [] form = "empty" -> [Id |-> JStr("")]
      [] form = "number" -> [Id |-> JNum]
      [] OTHER -> EmptyObj

\* answers to POST /api/v4/Apps; with a 2xx status the application is created
\* and the body may carry its id
CreateResponses(id) ==
    {NoResponse}
    \cup [transport : {TRUE}, status : {s \in Statuses : ~Is2xx(s)},
          decodable : {TRUE}, obj : {EmptyObj}]
    \cup [transport : {TRUE}, status : {s \in Statuses : Is2xx(s)},
          decodable : {FALSE}, obj : {EmptyObj}]
    \cup [transport : {TRUE}, status : {s \in Statuses : Is2xx(s)},
          decodable : {TRUE},
          obj : {CreateResponseObj(id, form) : form \in IdForms}]

\* the shapes in which the remote API renders an item: the fields it leaves
\* out, and the fields it renders as something that is not a string
ItemShapes ==
    {[absent |-> {}, other |-> {}],
     [absent |-> {"BusinessUnitId"}, other |-> {"Description"}],
     [absent |-> {"AssetGroupId", "Name"}, other |-> {"BusinessImpact"}],
     [absent |-> AppFields, other |-> {}]}

AppItem(app, shape) ==
    [f \in (AppFields \cup {"Id"}) \ shape.absent |->
        IF f \in shape.other THEN JNum ELSE JStr(app[f])]

\* the Items the filter "Id eq id" selects from the store
AppItemsSets(app, id) ==
    IF app # NoApp /\ app.Id = id
    THEN {<<AppItem(app, shape)>> : shape \in ItemShapes}
    ELSE {<<>>}

\* answers to GET /api/v4/Apps?$filter=Id eq id
ReadResponses(app, id) ==
    {NoResponse}
    \cup [transport : {TRUE}, status : Statuses \ {StatusOK},
          decodable : {TRUE}, items : {<<>>}]
    \cup [transport : {TRUE}, status : {StatusOK}, decodable : {FALSE},
          items : {<<>>}]
    \cup [transport : {TRUE}, status : {StatusOK}, decodable : {TRUE},
          items : AppItemsSets(app, id)]

\* answers to PUT and DELETE /api/v4/Apps/{id}: a 2xx only for a stored id
PerIdResponses(app, id) ==
    {NoResponse}
    \cup [transport : {TRUE},
          status : IF app # NoApp /\ app.Id = id
                   THEN Statuses
                   ELSE {s \in Statuses : ~Is2xx(s)}]

\* whether the remote API carried the request out
Applied(resp) == resp.transport /\ Is2xx(resp.status)

----------------------------------------------------------------------------
(* The appscan_application resource *)

\* the configurations the host hands to Create and Update; business_impact ""
\* is a configuration that does not set it, business_unit_id "" one without
\* a business unit
Config(n, de, ag, bu, bi) ==
    [name |-> n, description |-> de, asset_group_id |-> ag,
     business_unit_id |-> bu, business_impact |-> bi]

Configs ==
    {Config("App1", "", "AG1", "", ""),
     Config("App1", "desc", "AG1", "BU1", "High"),
     Config("App2", "desc", "AG2", "", "High"),
     Config("App2", "", "AG2", "BU1", ""),
     Config("App3", "", "AG1", "", "Severe"),
     Config("App3", "desc", "AG1", "BU1", "high")}

\* a validation that ignores case
ValidImpact_IgnoresCase(v) ==
    v \in BusinessImpacts
           \cup {"unspecified", "low", "medium", "high", "critical"}

\* validation.StringInSlice([]string{"Unspecified", ...}, false)
ValidImpact(v) == v \in BusinessImpacts

\* the host validates an attribute the configuration sets
ValidConfig(cfg) == cfg.business_impact # "" => ValidImpact(cfg.business_impact)

\* the configurations the host lets through to Create and Update
ValidConfigs == {cfg \in Configs : ValidConfig(cfg)}

\* a schema without a default for business_impact
ImpactOrDefault_NoDefault(v) == v

\* Default: "Unspecified" of the business_impact schema
ImpactOrDefault(v) == IF v = "" THEN "Unspecified" ELSE v

\* the ResourceData the host builds from a configuration
ResourceData(id, cfg) ==
    [id |-> id,
     name |-> cfg.name,
     description |-> cfg.description,
     asset_group_id |-> cfg.asset_group_id,
     business_unit_id |-> cfg.business_unit_id,
     business_impact |-> ImpactOrDefault(cfg.business_impact)]

\* d.GetOk: ok unless the value is the zero value
GetOk(v) == v # ""

\* an Authorization header that carries the token without its scheme
Bearer_NoScheme(client) == client.ApiToken

Bearer(client) == "Bearer " \o client.ApiToken

CreatePayload(dd) ==
    [Name |-> dd.name, Description |-> dd.description,
     AssetGroupId |-> dd.asset_group_id, BusinessImpact |-> dd.business_impact]
    @@ (IF GetOk(dd.business_unit_id)
        THEN [BusinessUnitId |-> dd.business_unit_id]
        ELSE EmptyObj)

CreateRequest(client, dd) ==
    [method |-> "POST",
     url |-> client.ApiEndpoint \o "/api/v4/Apps",
     query |-> EmptyObj,
     auth |-> Bearer(client),
     body |-> CreatePayload(dd)]

ReadRequest(client, id) ==
    [method |-> "GET",
     url |-> client.ApiEndpoint \o "/api/v4/Apps",
     query |-> ("$filter" :> ("Id eq " \o id)),
     auth |-> Bearer(client),
     body |-> EmptyObj]

\* an Update payload that always carries the business unit, empty or not
UpdatePayload_SendsEmptyUnit(dd) ==
    [Name |-> dd.name, Description |-> dd.description,
     BusinessImpact |-> dd.business_impact,
     BusinessUnitId |-> dd.business_unit_id]

\* an Update payload that resends the asset group
UpdatePayload_WithAssetGroup(dd) ==
    [Name |-> dd.name, Description |-> dd.description,
     AssetGroupId |-> dd.asset_group_id, BusinessImpact |-> dd.business_impact]
    @@ (IF GetOk(dd.business_unit_id)
        THEN [BusinessUnitId |-> dd.business_unit_id]
        ELSE EmptyObj)

UpdatePayload(dd) ==
    [Name |-> dd.name, Description |-> dd.description,
     BusinessImpact |-> dd.business_impact]
    @@ (IF GetOk(dd.business_unit_id)
        THEN [BusinessUnitId |-> dd.business_unit_id]
        ELSE EmptyObj)

UpdateRequest(client, dd) ==
    [method |-> "PUT",
     url |-> client.ApiEndpoint \o "/api/v4/Apps/" \o dd.id,
     query |-> EmptyObj,
     auth |-> Bearer(client),
     body |-> UpdatePayload(dd)]

DeleteRequest(client, id) ==
    [method |-> "DELETE",
     url |-> client.ApiEndpoint \o "/api/v4/Apps/" \o id,
     query |-> EmptyObj,
     auth |-> Bearer(client),
     body |-> EmptyObj]

\* a Read that empties an attribute the item does not carry as a string
SetIfString_ResetsWhenAbsent(dd, attr, app, key) ==
    [dd EXCEPT ![attr] = IF HasString(app, key) THEN StringAt(app, key) ELSE ""]

\* if v, ok := app[key].(string); ok { d.Set(attr, v) }
SetIfString(dd, attr, app, key) ==
    IF HasString(app, key) THEN [dd EXCEPT ![attr] = StringAt(app, key)] ELSE dd

ApplyItem(dd, app) ==
    LET d1 == SetIfString(dd, "name", app, "Name")
        d2 == SetIfString(d1, "description", app, "Description")
        d3 == SetIfString(d2, "asset_group_id", app, "AssetGroupId")
        d4 == SetIfString(d3, "business_unit_id", app, "BusinessUnitId")
    IN  SetIfString(d4, "business_impact", app, "BusinessImpact")

\* a Read that gives up the identity whenever it fails
ReadResult_ClearsOnError(dd, resp) ==
    IF ~resp.transport
    THEN [d |-> [dd EXCEPT !.id = ""], err |-> ErrTransport]
    ELSE IF resp.status = StatusNotFound
    THEN [d |-> [dd EXCEPT !.id = ""], err |-> NoError]
    ELSE IF resp.status # StatusOK
    THEN [d |-> [dd EXCEPT !.id = ""], err |-> ErrReadStatus]
    ELSE IF ~resp.decodable
    THEN [d |-> [dd EXCEPT !.id = ""], err |-> ErrDecode]
    ELSE IF Len(resp.items) = 0
    THEN [d |-> [dd EXCEPT !.id = ""], err |-> NoError]
    ELSE [d |-> ApplyItem(dd, resp.items[1]), err |-> NoError]

\* a Read that reports a 404 as an error instead of clearing the identity
ReadResult_NotFoundFails(dd, resp) ==
    IF ~resp.transport
    THEN [d |-> dd, err |-> ErrTransport]
    ELSE IF resp.status # StatusOK
    THEN [d |-> dd, err |-> ErrReadStatus]
    ELSE IF ~resp.decodable
    THEN [d |-> dd, err |-> ErrDecode]
    ELSE IF Len(resp.items) = 0
    THEN [d |-> [dd EXCEPT !.id = ""], err |-> NoError]
    ELSE [d |-> ApplyItem(dd, resp.items[1]), err |-> NoError]

\* resourceAppScanApplicationRead, from the response on: the ResourceData it
\* leaves and the error it returns
ReadResult(dd, resp) ==
    IF ~resp.transport
    THEN [d |-> dd, err |-> ErrTransport]
    ELSE IF resp.status = StatusNotFound
    THEN [d |-> [dd EXCEPT !.id = ""], err |-> NoError]
    ELSE IF resp.status # StatusOK
    THEN [d |-> dd, err |-> ErrReadStatus]
    ELSE IF ~resp.decodable
    THEN [d |-> dd, err |-> ErrDecode]
    ELSE IF Len(resp.items) = 0
    THEN [d |-> [dd EXCEPT !.id = ""], err |-> NoError]
    ELSE [d |-> ApplyItem(dd, resp.items[1]), err |-> NoError]

\* a Create that takes every 2xx status for a success
CreateResult_Any2xx(dd, resp) ==
    IF ~resp.transport
    THEN [d |-> dd, err |-> ErrTransport]
    ELSE IF ~Is2xx(resp.status)
    THEN [d |-> dd, err |-> ErrCreateStatus]
    ELSE IF ~resp.decodable
    THEN [d |-> dd, err |-> ErrDecode]
    ELSE IF ~HasString(resp.obj, "Id") \/ StringAt(resp.obj, "Id") = ""
    THEN [d |-> dd, err |-> ErrCreateNoId]
    ELSE [d |-> [dd EXCEPT !.id = StringAt(resp.obj, "Id")], err |-> NoError]

\* resourceAppScanApplicationCreate up to d.SetId(id)
CreateResult(dd, resp) ==
    IF ~resp.transport
    THEN [d |-> dd, err |-> ErrTransport]
    ELSE IF resp.status # StatusCreated /\ resp.status # StatusOK
    THEN [d |-> dd, err |-> ErrCreateStatus]
    ELSE IF ~resp.decodable
    THEN [d |-> dd, err |-> ErrDecode]
    ELSE IF ~HasString(resp.obj, "Id") \/ StringAt(resp.obj, "Id") = ""
    THEN [d |-> dd, err |-> ErrCreateNoId]
    ELSE [d |-> [dd EXCEPT !.id = StringAt(resp.obj, "Id")], err |-> NoError]

\* an Update that accepts 204 as well
UpdateResult_AcceptsNoContent(resp) ==
    IF ~resp.transport THEN ErrTransport
    ELSE IF resp.status # StatusOK /\ resp.status # StatusNoContent
    THEN ErrUpdateStatus
    ELSE NoError

\* resourceAppScanApplicationUpdate up to the status check
UpdateResult(resp) ==
    IF ~resp.transport THEN ErrTransport
    ELSE IF resp.status # StatusOK THEN ErrUpdateStatus
    ELSE NoError

\* a Delete that takes 404 for "already deleted"
DeleteResult_NotFoundOK(dd, resp) ==
    IF ~resp.transport
    THEN [d |-> dd, err |-> ErrTransport]
    ELSE IF resp.status \notin {StatusNoContent, StatusOK, StatusNotFound}
    THEN [d |-> dd, err |-> ErrDeleteStatus]
    ELSE [d |-> [dd EXCEPT !.id = ""], err |-> NoError]

\* a Delete that accepts 200 only
DeleteResult_OnlyOK(dd, resp) ==
    IF ~resp.transport
    THEN [d |-> dd, err |-> ErrTransport]
    ELSE IF resp.status # StatusOK
    THEN [d |-> dd, err |-> ErrDeleteStatus]
    ELSE [d |-> [dd EXCEPT !.id = ""], err |-> NoError]

\* resourceAppScanApplicationDelete, from the response on
DeleteResult(dd, resp) ==
    IF ~resp.transport
    THEN [d |-> dd, err |-> ErrTransport]
    ELSE IF resp.status # StatusNoContent /\ resp.status # StatusOK
    THEN [d |-> dd, err |-> ErrDeleteStatus]
    ELSE [d |-> [dd EXCEPT !.id = ""], err |-> NoError]

\* the host calls Create for a resource that has no identity
resourceAppScanApplicationCreate ==
    /\ phase = "configured"
    /\ d.id = ""
    /\ nextId < NumIds
    /\ \E cfg \in ValidConfigs :
         LET d0 == ResourceData("", cfg)
             newId == AppId(nextId + 1)
             req == CreateRequest(session, d0)
         IN  \E post \in CreateResponses(newId) :
               LET created == Applied(post)
                   app1 == IF created THEN StoredApp(newId, req.body) ELSE remote
                   step == CreateResult(d0, post)
               IN  /\ remote' = app1
                   /\ orphans' = IF created /\ remote # NoApp
                                 THEN orphans \cup {remote.Id}
                                 ELSE orphans
                   /\ nextId' = IF created THEN nextId + 1 ELSE nextId
                   /\ IF step.err # NoError
                      THEN /\ d' = step.d
                           /\ lastOp' = OpRecord("Create", <<req>>, <<post>>,
                                                 step.err)
                      ELSE \E rd \in ReadResponses(app1, step.d.id) :
                             LET r == ReadResult(step.d, rd) IN
                             /\ d' = r.d
                             /\ lastOp' =
                                  OpRecord("Create",
                                           <<req, ReadRequest(session, step.d.id)>>,
                                           <<post, rd>>, r.err)
    /\ UNCHANGED <<phase, session, logins, ds, catalog>>

\* a Read that logs in again when it is answered 401
resourceAppScanApplicationRead_LogsInAgain ==
    /\ phase = "configured"
    /\ d.id # ""
    /\ \E rd \in ReadResponses(remote, d.id) :
         LET r == ReadResult(d, rd)
             again == rd.transport /\ rd.status = 401
         IN
         /\ d' = r.d
         /\ logins' = IF again THEN logins + 1 ELSE logins
         /\ session' = IF again THEN [session EXCEPT !.ApiToken = "tokA"]
                        ELSE session
         /\ lastOp' = OpRecord("Read", <<ReadRequest(session, d.id)>>, <<rd>>,
                               r.err)
    /\ UNCHANGED <<phase, remote, orphans, nextId, ds, catalog>>

\* the host refreshes a resource that has an identity
resourceAppScanApplicationRead ==
    /\ phase = "configured"
    /\ d.id # ""
    /\ \E rd \in ReadResponses(remote, d.id) :
         LET r == ReadResult(d, rd) IN
         /\ d' = r.d
         /\ lastOp' = OpRecord("Read", <<ReadRequest(session, d.id)>>, <<rd>>,
                               r.err)
    /\ UNCHANGED <<phase, session, logins, remote, orphans, nextId, ds, catalog>>

\* the host calls Update with the planned values of the attributes that are
\* not ForceNew
resourceAppScanApplicationUpdate ==
    /\ phase = "configured"
    /\ d.id # ""
    /\ \E cfg \in ValidConfigs :
         LET d0 == ResourceData(d.id, [cfg EXCEPT !.asset_group_id = d.asset_group_id])
             req == UpdateRequest(session, d0)
         IN  \E put \in PerIdResponses(remote, d0.id) :
               LET app1 == IF Applied(put) THEN PutApp(remote, req.body) ELSE remote
                   err == UpdateResult(put)
               IN  /\ remote' = app1
                   /\ IF err # NoError
                      THEN /\ d' = d0
                           /\ lastOp' = OpRecord("Update", <<req>>, <<put>>, err)
                      ELSE \E rd \in ReadResponses(app1, d0.id) :
                             LET r == ReadResult(d0, rd) IN
                             /\ d' = r.d
                             /\ lastOp' =
                                  OpRecord("Update",
                                           <<req, ReadRequest(session, d0.id)>>,
                                           <<put, rd>>, r.err)
    /\ UNCHANGED <<phase, session, logins, orphans, nextId, ds, catalog>>

\* a Delete that sends its request a second time when the first is refused
resourceAppScanApplicationDelete_Retries ==
    /\ phase = "configured"
    /\ d.id # ""
    /\ \E del \in PerIdResponses(remote, d.id) :
         LET first == DeleteResult(d, del)
             req == DeleteRequest(session, d.id)
         IN
         IF first.err = NoError
         THEN /\ remote' = IF Applied(del) THEN NoApp ELSE remote
              /\ d' = first.d
              /\ lastOp' = OpRecord("Delete", <<req>>, <<del>>, NoError)
         ELSE LET app1 == IF Applied(del) THEN NoApp ELSE remote IN
              \E again \in PerIdResponses(app1, d.id) :
                LET r == DeleteResult(d, again) IN
                /\ remote' = IF Applied(again) THEN NoApp ELSE app1
                /\ d' = r.d
                /\ lastOp' = OpRecord("Delete", <<req, req>>, <<del, again>>,
                                      r.err)
    /\ UNCHANGED <<phase, session, logins, orphans, nextId, ds, catalog>>

\* the host destroys a resource that has an identity
resourceAppScanApplicationDelete ==
    /\ phase = "configured"
    /\ d.id # ""
    /\ \E del \in PerIdResponses(remote, d.id) :
         LET r == DeleteResult(d, del) IN
         /\ remote' = IF Applied(del) THEN NoApp ELSE remote
         /\ d' = r.d
         /\ lastOp' = OpRecord("Delete", <<DeleteRequest(session, d.id)>>,
                               <<del>>, r.err)
    /\ UNCHANGED <<phase, session, logins, orphans, nextId, ds, catalog>>

\* drift: somebody else removes the application on the remote side
RemoteDelete ==
    /\ remote # NoApp
    /\ remote' = NoApp
    /\ UNCHANGED <<phase, session, logins, d, orphans, nextId, ds, catalog,
                   lastOp>>

----------------------------------------------------------------------------
(* The provider instance with its application resource *)

NoResourceData ==
    [id |-> "", name |-> "", description |-> "", asset_group_id |-> "",
     business_unit_id |-> "", business_impact |-> ""]

NoData == [kind |-> "none", id |-> ""]

Init ==
    /\ phase = "unconfigured"
    /\ session = NoSession
    /\ logins = 0
    /\ d = NoResourceData
    /\ remote = NoApp
    /\ orphans = {}
    /\ nextId = 0
    /\ ds = NoData
    /\ catalog = <<>>
    /\ lastOp = OpRecord("none", <<>>, <<>>, NoError)

Next ==
    \/ providerConfigure
    \/ resourceAppScanApplicationCreate
    \/ resourceAppScanApplicationRead
    \/ resourceAppScanApplicationUpdate
    \/ resourceAppScanApplicationDelete
    \/ RemoteDelete

Spec == Init /\ [][Next]_vars

----------------------------------------------------------------------------
(* The remote API's side of the data-source exchanges: a collection endpoint *)
(* returns, in its own order, the entries whose Name the $filter names, or   *)
(* all of them when the request carries no $filter.                          *)

Entry(id, name, description) ==
    [Id |-> id, Name |-> name, Description |-> description]

Entries ==
    {Entry("g1", "Prod", "first"), Entry("g2", "Prod", ""),
     Entry("g3", "Prod", "third"), Entry("g4", "Dev", "dev")}

\* the names a configuration looks up; "" is a list read without a name
LookupNames == {"Prod", "Dev", "Test"}

SeqsUpTo(S, n) == UNION {[1..k -> S] : k \in 0..n}

Catalogs == SeqsUpTo(Entries, MaxItems)

NameFilter(name) == "Name eq '" \o name \o "'"

Selected(entry, query) ==
    "$filter" \in DOMAIN query => query["$filter"] = NameFilter(entry.Name)

Matching(entries, query) == SelectSeq(entries, LAMBDA e : Selected(e, query))

\* answers to GET on a collection endpoint
CollectionResponses(entries, query) ==
    {NoResponse}
    \cup [transport : {TRUE}, status : Statuses \ {StatusOK},
          decodable : {TRUE}, items : {<<>>}]
    \cup [transport : {TRUE}, status : {StatusOK}, decodable : {FALSE},
          items : {<<>>}]
    \cup [transport : {TRUE}, status : {StatusOK}, decodable : {TRUE},
          items : {Matching(entries, query)}]

----------------------------------------------------------------------------
(* The data sources *)

\* the ResourceData the host builds for a data source read
LookupData(kind, name) ==
    [kind |-> kind, id |-> "", name |-> name, description |-> "",
     asset_groups |-> <<>>]

CollectionRequest(client, collection, query) ==
    [method |-> "GET",
     url |-> client.ApiEndpoint \o "/api/v4/" \o collection,
     query |-> query,
     auth |-> Bearer(client),
     body |-> EmptyObj]

\* query.Set("$filter", fmt.Sprintf("Name eq '%s'", name))
FilterQuery(name) == "$filter" :> NameFilter(name)

\* a list read that never narrows the request
ListQuery_NeverFilters(name) == EmptyObj

\* the list read sets $filter only when d.GetOk("name") is ok
ListQuery(name) == IF GetOk(name) THEN FilterQuery(name) ELSE EmptyObj

\* a single lookup that takes the first of several matches
AssetGroupResult_FirstMatch(dd, resp) ==
    IF ~resp.transport
    THEN [d |-> dd, err |-> ErrTransport]
    ELSE IF resp.status # StatusOK
    THEN [d |-> dd, err |-> ErrAssetGroupStatus]
    ELSE IF ~resp.decodable
    THEN [d |-> dd, err |-> ErrDecode]
    ELSE IF Len(resp.items) = 0
    THEN [d |-> dd, err |-> ErrNoAssetGroup]
    ELSE [d |-> [dd EXCEPT !.id = resp.items[1].Id,
                           !.name = resp.items[1].Name,
                           !.description = resp.items[1].Description],
          err |-> NoError]

\* dataSourceAssetGroupRead, from the response on
AssetGroupResult(dd, resp) ==
    IF ~resp.transport
    THEN [d |-> dd, err |-> ErrTransport]
    ELSE IF resp.status # StatusOK
    THEN [d |-> dd, err |-> ErrAssetGroupStatus]
    ELSE IF ~resp.decodable
    THEN [d |-> dd, err |-> ErrDecode]
    ELSE IF Len(resp.items) = 0
    THEN [d |-> dd, err |-> ErrNoAssetGroup]
    ELSE IF Len(resp.items) > 1
    THEN [d |-> dd, err |-> ErrMultipleAssetGroups]
    ELSE [d |-> [dd EXCEPT !.id = resp.items[1].Id,
                           !.name = resp.items[1].Name,
                           !.description = resp.items[1].Description],
          err |-> NoError]

\* dataSourceBusinessUnitRead, from the response on
BusinessUnitResult(dd, resp) ==
    IF ~resp.transport
    THEN [d |-> dd, err |-> ErrTransport]
    ELSE IF resp.status # StatusOK
    THEN [d |-> dd, err |-> ErrBusinessUnitStatus]
    ELSE IF ~resp.decodable
    THEN [d |-> dd, err |-> ErrDecode]
    ELSE IF Len(resp.items) = 0
    THEN [d |-> dd, err |-> ErrNoBusinessUnit]
    ELSE IF Len(resp.items) > 1
    THEN [d |-> dd, err |-> ErrMultipleBusinessUnits]
    ELSE [d |-> [dd EXCEPT !.id = resp.items[1].Id,
                           !.name = resp.items[1].Name,
                           !.description = resp.items[1].Description],
          err |-> NoError]

\* group := map[string]interface{}{"id": ag.Id, "name": ..., "description": ...}
Group(item) ==
    [id |-> item.Id, name |-> item.Name, description |-> item.Description]

\* a mapping loop that stops one entry short
Groups_DropsLast(items) ==
    [i \in 1..(IF Len(items) > 1 THEN Len(items) - 1 ELSE Len(items)) |->
        Group(items[i])]

\* groups[i] = group, for i, ag := range result.Items
Groups(items) == [i \in 1..Len(items) |-> Group(items[i])]

\* dataSourceAssetGroupsRead, from the response on
AssetGroupsResult(dd, resp) ==
    IF ~resp.transport
    THEN [d |-> dd, err |-> ErrTransport]
    ELSE IF resp.status # StatusOK
    THEN [d |-> dd, err |-> ErrAssetGroupsStatus]
    ELSE IF ~resp.decodable
    THEN [d |-> dd, err |-> ErrDecode]
    ELSE [d |-> [dd EXCEPT !.asset_groups = Groups(resp.items),
                           !.id = "asset_groups"],
          err |-> NoError]

dataSourceAssetGroupRead ==
    /\ phase = "configured"
    /\ \E name \in LookupNames :
         LET req == CollectionRequest(session, "AssetGroups", FilterQuery(name)) IN
         \E resp \in CollectionResponses(catalog, req.query) :
           LET r == AssetGroupResult(LookupData("asset_group", name), resp) IN
           /\ ds' = r.d
           /\ lastOp' = OpRecord("AssetGroup", <<req>>, <<resp>>, r.err)
    /\ UNCHANGED <<phase, session, logins, d, remote, orphans, nextId, catalog>>

dataSourceBusinessUnitRead ==
    /\ phase = "configured"
    /\ \E name \in LookupNames :
         LET req == CollectionRequest(session, "BusinessUnits", FilterQuery(name)) IN
         \E resp \in CollectionResponses(catalog, req.query) :
           LET r == BusinessUnitResult(LookupData("business_unit", name), resp) IN
           /\ ds' = r.d
           /\ lastOp' = OpRecord("BusinessUnit", <<req>>, <<resp>>, r.err)
    /\ UNCHANGED <<phase, session, logins, d, remote, orphans, nextId, catalog>>

dataSourceAssetGroupsRead ==
    /\ phase = "configured"
    /\ \E name \in LookupNames \cup {""} :
         LET req == CollectionRequest(session, "AssetGroups", ListQuery(name)) IN
         \E resp \in CollectionResponses(catalog, req.query) :
           LET r == AssetGroupsResult(LookupData("asset_groups", name), resp) IN
           /\ ds' = r.d
           /\ lastOp' = OpRecord("AssetGroups", <<req>>, <<resp>>, r.err)
    /\ UNCHANGED <<phase, session, logins, d, remote, orphans, nextId, catalog>>

\* a provider instance whose data sources are read, for every content of the
\* remote collection
InitLookup ==
    /\ phase = "unconfigured"
    /\ session = NoSession
    /\ logins = 0
    /\ d = NoResourceData
    /\ remote = NoApp
    /\ orphans = {}
    /\ nextId = 0
    /\ ds = NoData
    /\ catalog \in Catalogs
    /\ lastOp = OpRecord("none", <<>>, <<>>, NoError)

NextLookup ==
    \/ providerConfigure
    \/ dataSourceAssetGroupRead
    \/ dataSourceBusinessUnitRead
    \/ dataSourceAssetGroupsRead

SpecLookup == InitLookup /\ [][NextLookup]_vars

----------------------------------------------------------------------------
(* What the last handler call saw *)

\* the response of the Read exchange that ended the last call, if there was one
EndedWithRead ==
    \/ lastOp.op = "Read"
    \/ lastOp.op \in {"Create", "Update"} /\ Len(lastOp.resps) = 2
LastReadResponse == lastOp.resps[Len(lastOp.resps)]

\* the remote API reported no application of that id: 404, or 200 with no Items
SawNothing(resp) ==
    /\ resp.transport
    /\ \/ resp.status = StatusNotFound
       \/ resp.status = StatusOK /\ resp.decodable /\ Len(resp.items) = 0

\* the POST answer carries a usable id
PostAccepted(resp) ==
    /\ resp.transport
    /\ resp.status \in {StatusOK, StatusCreated}
    /\ resp.decodable
    /\ HasString(resp.obj, "Id")
    /\ StringAt(resp.obj, "Id") # ""

PerIdUrl(id) == session.ApiEndpoint \o "/api/v4/Apps/" \o id

----------------------------------------------------------------------------
(* C1: the lifecycle of local identity *)

\* C1: a Create that returns success leaves local identity non-empty
\* and equal to the server-assigned id, an Update that returns success leaves
\* it non-empty and unchanged, a Delete that returns success leaves it empty.
C1_SuccessKeepsIdentity ==
    /\ lastOp.op = "Create" /\ lastOp.err = NoError
         => d.id # "" /\ d.id = StringAt(lastOp.resps[1].obj, "Id")
    /\ lastOp.op = "Update" /\ lastOp.err = NoError
         => d.id # "" /\ lastOp.reqs[1].url = PerIdUrl(d.id)
    /\ lastOp.op = "Delete" /\ lastOp.err = NoError => d.id = ""

\* What the code does instead: identity is the assigned id after a successful
\* Create, and is unchanged after a successful Update, unless the Read that
\* ends the call got a 404 or an empty Items array, and then it is empty.
C1_AfterSuccess ==
    /\ lastOp.op = "Create" /\ lastOp.err = NoError
         => /\ StringAt(lastOp.resps[1].obj, "Id") # ""
            /\ IF SawNothing(lastOp.resps[2])
               THEN d.id = ""
               ELSE d.id = StringAt(lastOp.resps[1].obj, "Id")
    /\ lastOp.op = "Update" /\ lastOp.err = NoError
         => IF SawNothing(lastOp.resps[2])
            THEN d.id = ""
            ELSE d.id # "" /\ lastOp.reqs[1].url = PerIdUrl(d.id)
    /\ lastOp.op = "Delete" /\ lastOp.err = NoError => d.id = ""

\* The part of C1 that holds: no step replaces a non-empty identity by
\* another non-empty one.
C1_IdentityNeverReplaced ==
    /\ []C1_AfterSuccess
    /\ [][d.id # "" /\ d'.id # "" => d'.id = d.id]_vars

----------------------------------------------------------------------------
(* C2: Application Read *)

C2_ReadOutcome ==
    lastOp.op = "Read" /\ lastOp.resps[1].transport =>
        LET resp == lastOp.resps[1] IN
        IF SawNothing(resp)
        THEN d.id = "" /\ lastOp.err = NoError
        ELSE resp.status # StatusOK => ReadFailed(lastOp.err)

\* C2: a Read answered 404, or 200 with an empty Items array, clears local
\* identity and returns success; a Read answered any other status than 200
\* returns ReadFailed and leaves identity and attributes as they were.
C2_Read ==
    /\ []C2_ReadOutcome
    /\ [][lastOp'.op = "Read" /\ ReadFailed(lastOp'.err) => d' = d]_vars

C2_Witness ==
    /\ lastOp.op = "Read"
    /\ lastOp.resps[1].transport
    /\ lastOp.resps[1].status = StatusOK
    /\ lastOp.resps[1].decodable
    /\ lastOp.resps[1].items = <<>>
    /\ d.id = "" /\ lastOp.err = NoError

----------------------------------------------------------------------------
(* C3: Application Create *)

\* C3: the POST is accepted only with status 200 or 201 and a non-empty
\* string Id; otherwise Create fails (CreateFailed for a bad status or a
\* missing or empty Id), identity stays empty and only the POST was sent; when
\* accepted, the second request is the Read of the response's Id.
C3_Create ==
    lastOp.op = "Create" =>
        LET post == lastOp.resps[1] IN
        IF PostAccepted(post)
        THEN /\ Len(lastOp.reqs) = 2
             /\ lastOp.reqs[2] = ReadRequest(session, StringAt(post.obj, "Id"))
             /\ d.id \in {StringAt(post.obj, "Id"), ""}
        ELSE /\ lastOp.err # NoError
             /\ d.id = ""
             /\ Len(lastOp.reqs) = 1
             /\ lastOp.reqs[1].method = "POST"
             /\ post.transport /\ (post.status \notin {StatusOK, StatusCreated}
                                   \/ post.decodable)
                  => CreateFailed(lastOp.err)

C3_Witness ==
    /\ lastOp.op = "Create"
    /\ PostAccepted(lastOp.resps[1])
    /\ lastOp.resps[1].status = StatusCreated
    /\ Len(lastOp.reqs) = 2
    /\ d.id = StringAt(lastOp.resps[1].obj, "Id")

----------------------------------------------------------------------------
(* C4: Application Delete *)

C4_DeleteOutcome ==
    lastOp.op = "Delete" =>
        /\ Len(lastOp.reqs) = 1
        /\ lastOp.reqs[1].method = "DELETE"
        /\ lastOp.resps[1].transport =>
             IF lastOp.resps[1].status \in {StatusOK, StatusNoContent}
             THEN d.id = "" /\ lastOp.err = NoError
             ELSE DeleteFailed(lastOp.err) /\ d.id # ""

\* C4: Delete sends one DELETE to the per-id endpoint of the identity; status
\* 200 or 204 clears local identity and returns success; any other status
\* returns DeleteFailed and leaves local identity as it was.
C4_Delete ==
    /\ []C4_DeleteOutcome
    /\ [][lastOp'.op = "Delete" /\ d.id # "" =>
            /\ lastOp'.reqs[1].url = PerIdUrl(d.id)
            /\ DeleteFailed(lastOp'.err) => d'.id = d.id]_vars

C4_Witness ==
    /\ lastOp.op = "Delete"
    /\ lastOp.resps[1].transport
    /\ lastOp.resps[1].status = StatusNoContent
    /\ d.id = "" /\ lastOp.err = NoError

----------------------------------------------------------------------------
(* C5: Update and asset_group_id *)

C5_BodyOmitsAssetGroup ==
    lastOp.op = "Update" => "AssetGroupId" \notin DOMAIN lastOp.reqs[1].body

\* C5: the Update request body never contains AssetGroupId, and neither an
\* Update nor a Read after it changes the local asset_group_id or the one the
\* remote API stores.
C5_UpdateKeepsAssetGroup ==
    /\ []C5_BodyOmitsAssetGroup
    /\ [][lastOp'.op \in {"Update", "Read"} =>
            /\ d'.asset_group_id = d.asset_group_id
            /\ remote # NoApp /\ remote' # NoApp
                 => remote'.AssetGroupId = remote.AssetGroupId]_vars

C5_Witness ==
    /\ lastOp.op = "Update" /\ lastOp.err = NoError
    /\ Len(lastOp.resps) = 2
    /\ Len(lastOp.resps[2].items) = 1
    /\ HasString(lastOp.resps[2].items[1], "AssetGroupId")
    /\ d.asset_group_id = "AG2"
    /\ d.name = "App1"

----------------------------------------------------------------------------
(* C6: Application Update *)

\* the ResourceData an Update was called with, from the data before the call
\* and the body it sent
PlannedData(dd, body) ==
    [id |-> dd.id,
     name |-> body.Name,
     description |-> body.Description,
     asset_group_id |-> dd.asset_group_id,
     business_unit_id |->
         IF "BusinessUnitId" \in DOMAIN body THEN body.BusinessUnitId ELSE "",
     business_impact |-> body.BusinessImpact]

C6_UpdateOutcome ==
    lastOp.op = "Update" =>
        /\ lastOp.reqs[1].method = "PUT"
        /\ lastOp.resps[1].transport =>
             IF lastOp.resps[1].status = StatusOK
             THEN /\ Len(lastOp.reqs) = 2
                  /\ lastOp.reqs[2].method = "GET"
                  /\ lastOp.err = ReadResult(d, lastOp.resps[2]).err
             ELSE /\ UpdateFailed(lastOp.err)
                  /\ Len(lastOp.reqs) = 1

\* C6: Update sends one PUT to the per-id endpoint; any status other than 200
\* (204 included) returns UpdateFailed and no Read follows; on 200 exactly one
\* Read of the same id follows, and the error and the data Update leaves are
\* those of that Read.
C6_Update ==
    /\ []C6_UpdateOutcome
    /\ [][lastOp'.op = "Update" /\ d.id # "" =>
            /\ lastOp'.reqs[1].url = PerIdUrl(d.id)
            /\ Len(lastOp'.reqs) = 2 =>
                 /\ lastOp'.reqs[2] = ReadRequest(session, d.id)
                 /\ d' = ReadResult(PlannedData(d, lastOp'.reqs[1].body),
                                    lastOp'.resps[2]).d]_vars

C6_Witness ==
    /\ lastOp.op = "Update"
    /\ lastOp.resps[1].transport
    /\ lastOp.resps[1].status = StatusNoContent
    /\ UpdateFailed(lastOp.err)
    /\ Len(lastOp.reqs) = 1

----------------------------------------------------------------------------
(* C7: the Authenticator *)

LoginUrl(endpoint) == endpoint \o "/api/v4/Account/ApiKeyLogin"

\* C7: for any credentials and any login response, providerConfigure either
\* returns a Session whose token is non-empty and is the response's Token, for
\* the endpoint it logged in to, or fails: AuthenticationFailed on a status
\* other than 200, MalformedResponse on an undecodable body or a missing or
\* empty Token.  No Session has an empty token.
C7_Authenticator ==
    /\ phase = "configured" => session.ApiToken # "" /\ session.ApiToken \in Tokens
    /\ phase # "configured" => session = NoSession
    /\ lastOp.op = "Configure" =>
         LET resp == lastOp.resps[1] IN
         IF lastOp.err = NoError
         THEN /\ phase = "configured"
              /\ resp.transport /\ resp.status = StatusOK /\ resp.decodable
              /\ HasString(resp.obj, "Token")
              /\ session.ApiToken = StringAt(resp.obj, "Token")
              /\ lastOp.reqs[1].url = LoginUrl(session.ApiEndpoint)
         ELSE /\ phase = "failed"
              /\ resp.transport /\ resp.status # StatusOK
                   => AuthenticationFailed(lastOp.err)
              /\ resp.transport /\ resp.status = StatusOK
                   => MalformedResponse(lastOp.err)

C7_Witness ==
    /\ lastOp.op = "Configure"
    /\ lastOp.err = NoError
    /\ session.ApiToken = "tokB"
    /\ lastOp.reqs[1].body.KeySecret = "secret2"

----------------------------------------------------------------------------
(* C8: no retry, no token refresh *)

C8_OneLogin ==
    /\ logins <= 1
    /\ logins = 0 <=> phase = "unconfigured"
    /\ lastOp.op = "Configure" => Len(lastOp.reqs) = 1
    /\ phase = "failed" => session = NoSession /\ lastOp.op = "Configure"
    /\ lastOp.op \notin {"none", "Configure"} =>
         /\ phase = "configured"
         /\ \A i \in 1..Len(lastOp.reqs) :
              /\ lastOp.reqs[i].url # LoginUrl(session.ApiEndpoint)
              /\ lastOp.reqs[i].auth = Bearer(session)

\* C8: a provider instance sends exactly one login request; when the login
\* fails there is no Session and no handler sends anything afterwards; once
\* it has succeeded, no step (whatever the response, 401 included) sends
\* another login or changes the Session.
C8_NoRetryNoRefresh ==
    /\ []C8_OneLogin
    /\ [][phase # "unconfigured" =>
            session' = session /\ logins' = logins /\ phase' = phase]_vars

C8_Witness ==
    /\ lastOp.op = "Read"
    /\ lastOp.resps[1].transport
    /\ lastOp.resps[1].status = 401
    /\ logins = 1
    /\ session.ApiToken = "tokB"

----------------------------------------------------------------------------
(* C9: the single lookups *)

Unset(dd) == dd.id = "" /\ dd.description = "" /\ dd.asset_groups = <<>>

SameOutcome(e1, e2) ==
    /\ e1 = NoError <=> e2 = NoError
    /\ ReadFailed(e1) <=> ReadFailed(e2)
    /\ NotFound(e1) <=> NotFound(e2)
    /\ AmbiguousMatch(e1) <=> AmbiguousMatch(e2)
    /\ MalformedResponse(e1) <=> MalformedResponse(e2)

\* C9: a single lookup answered 200 fails with NotFound on 0 items and with
\* AmbiguousMatch on 2 or more, and on exactly 1 item takes its Id, name and
\* description; answered another status it fails with ReadFailed; in every
\* failing case identity and description stay unset.  The business-unit
\* lookup ends as the asset-group lookup does on the same response, and only
\* its collection endpoint differs.
C9_SingleLookup ==
    lastOp.op \in {"AssetGroup", "BusinessUnit"} =>
        LET req == lastOp.reqs[1]
            resp == lastOp.resps[1]
        IN
        /\ Len(lastOp.reqs) = 1
        /\ req.url = session.ApiEndpoint \o
                     (IF lastOp.op = "AssetGroup" THEN "/api/v4/AssetGroups"
                      ELSE "/api/v4/BusinessUnits")
        /\ lastOp.err # NoError => Unset(ds)
        /\ resp.transport /\ resp.status # StatusOK => ReadFailed(lastOp.err)
        /\ resp.transport /\ resp.status = StatusOK /\ resp.decodable =>
             IF Len(resp.items) = 0 THEN NotFound(lastOp.err)
             ELSE IF Len(resp.items) >= 2 THEN AmbiguousMatch(lastOp.err)
             ELSE /\ lastOp.err = NoError
                  /\ ds.id = resp.items[1].Id
                  /\ ds.name = resp.items[1].Name
                  /\ ds.description = resp.items[1].Description
        /\ lastOp.op = "BusinessUnit" =>
             \E name \in LookupNames :
               LET ag == AssetGroupResult(LookupData("business_unit", name), resp)
               IN  /\ req.query = FilterQuery(name)
                   /\ ds = ag.d
                   /\ SameOutcome(lastOp.err, ag.err)

C9_Witness ==
    /\ lastOp.op = "BusinessUnit"
    /\ lastOp.err = NoError
    /\ Len(catalog) = MaxItems
    /\ Len(lastOp.resps[1].items) = 1
    /\ ds.id = "g4" /\ ds.name = "Dev" /\ ds.description = "dev"

----------------------------------------------------------------------------
(* C10: the asset-group list read *)

\* C10: an asset-group list read answered 200 with n Items (n >= 0) returns
\* success with exactly n entries, entry i carrying the id, name and
\* description of Items[i], and with the identity "asset_groups"; answered
\* another status it fails with ReadFailed and sets neither the collection
\* nor the identity.
C10_ListRead ==
    lastOp.op = "AssetGroups" /\ lastOp.resps[1].transport =>
        LET resp == lastOp.resps[1] IN
        IF resp.status = StatusOK
        THEN resp.decodable =>
               /\ lastOp.err = NoError
               /\ ds.id = "asset_groups"
               /\ Len(ds.asset_groups) = Len(resp.items)
               /\ \A i \in 1..Len(resp.items) :
                    /\ ds.asset_groups[i].id = resp.items[i].Id
                    /\ ds.asset_groups[i].name = resp.items[i].Name
                    /\ ds.asset_groups[i].description = resp.items[i].Description
        ELSE /\ ReadFailed(lastOp.err)
             /\ ds.id = ""
             /\ ds.asset_groups = <<>>

C10_Witness ==
    /\ lastOp.op = "AssetGroups"
    /\ lastOp.err = NoError
    /\ Len(lastOp.resps[1].items) = 3
    /\ lastOp.resps[1].items[1].Id = "g3"
    /\ lastOp.resps[1].items[3].Id = "g1"
    /\ ds.asset_groups[1].id = "g3"
    /\ ds.asset_groups[3].id = "g1"

----------------------------------------------------------------------------
(* C11 *)

\* the entries of the collection that carry exactly this name, in order
NamedExactly(entries, name) == SelectSeq(entries, LAMBDA e : e.Name = name)

\* C11: the list request of the asset-group list read carries a $filter
\* clause if and only if a name is given, and then the clause is the
\* exact-match clause for that name; a list read that succeeds with no name
\* returns every item of the collection, and with a name returns exactly the
\* items of the collection whose name equals that name, in their order.
C11_ListFilter ==
    lastOp.op = "AssetGroups" =>
        LET req == lastOp.reqs[1]
            expected == IF ds.name = "" THEN catalog
                        ELSE NamedExactly(catalog, ds.name)
        IN  /\ ("$filter" \in DOMAIN req.query) <=> (ds.name # "")
            /\ ds.name # "" =>
                   req.query["$filter"] = "Name eq '" \o ds.name \o "'"
            /\ lastOp.err = NoError =>
                   /\ Len(ds.asset_groups) = Len(expected)
                   /\ \A i \in 1..Len(expected) :
                        /\ ds.asset_groups[i].id = expected[i].Id
                        /\ ds.asset_groups[i].name = expected[i].Name

\* a filtered list read over a collection of three that holds one match
C11_Witness ==
    /\ lastOp.op = "AssetGroups"
    /\ lastOp.err = NoError
    /\ ds.name = "Dev"
    /\ Len(catalog) = 3
    /\ catalog[2].Name = "Dev"
    /\ catalog[1].Name = "Prod"
    /\ Len(ds.asset_groups) = 1
    /\ ds.asset_groups[1].id = catalog[2].Id

----------------------------------------------------------------------------
(* C12: Create, then Read *)

\* the read answer carries the application
SawItem(resp) ==
    /\ resp.transport
    /\ resp.status = StatusOK
    /\ resp.decodable
    /\ Len(resp.items) >= 1

\* the Create was served faithfully: the POST was accepted with an id and
\* the GET that follows returned the stored application
CreateServed ==
    /\ lastOp.op = "Create"
    /\ PostAccepted(lastOp.resps[1])
    /\ Len(lastOp.resps) = 2
    /\ SawItem(lastOp.resps[2])

BodyUnit(body) ==
    IF "BusinessUnitId" \in DOMAIN body THEN body.BusinessUnitId ELSE ""

\* the configuration behind a request body leaves business_impact out
ImpactOmitted(body) ==
    \E cfg \in Configs :
        /\ cfg.business_impact = ""
        /\ cfg.name = body.Name
        /\ cfg.description = body.Description
        /\ cfg.asset_group_id = body.AssetGroupId
        /\ cfg.business_unit_id = BodyUnit(body)

C12_AfterCreate ==
    CreateServed =>
        LET body == lastOp.reqs[1].body IN
        /\ lastOp.err = NoError
        /\ d.id = StringAt(lastOp.resps[1].obj, "Id")
        /\ d.name = body.Name
        /\ d.asset_group_id = body.AssetGroupId
        /\ d.business_unit_id = BodyUnit(body)
        /\ d.business_impact = body.BusinessImpact
        /\ ImpactOmitted(body) => d.business_impact = "Unspecified"

\* C12: after a Create of name N, asset group G, business_impact omitted and
\* business unit B or none, served by an API that stores what is posted and
\* assigns id I, local state has id I, name N, asset_group_id G,
\* business_impact "Unspecified" and business_unit_id B (empty when none was
\* given); a Read of id I that follows and is answered with the stored
\* application leaves every local value as it was.
C12_CreateReadRoundTrip ==
    /\ [](C12_AfterCreate)
    /\ [][(CreateServed /\ lastOp'.op = "Read" /\ SawItem(lastOp'.resps[1]))
            => (lastOp'.err = NoError /\ d' = d)]_vars

\* name App2, asset group AG2, business unit BU1, no business_impact
C12_Witness ==
    /\ CreateServed
    /\ ImpactOmitted(lastOp.reqs[1].body)
    /\ d.id # ""
    /\ d.name = "App2"
    /\ d.asset_group_id = "AG2"
    /\ d.business_unit_id = "BU1"
    /\ d.business_impact = "Unspecified"

----------------------------------------------------------------------------
(* C13: what an operation that fails leaves behind *)

ResourceOps == {"Create", "Read", "Update", "Delete"}

\* the step is a resource operation that returns an error
Fails(op, rec0, rec1) == rec1 # rec0 /\ rec1.op = op /\ rec1.err # NoError

\* the errors of the Read that ends Create and Update
FinalReadErrors == {ErrTransport, ErrReadStatus, ErrDecode}

\* C13 as stated: whenever Create, Read, Update or Delete returns an error,
\* local identity is what it was before the operation, and an operation
\* whose POST or PUT the handler accepted (it went on to its Read) has left
\* the remote application unchanged: a Create whose POST succeeded never
\* returns an error with an application left on the server or an identity
\* set locally.
C13_AllOrNothing ==
    [][(\E op \in ResourceOps : Fails(op, lastOp, lastOp'))
          => /\ d'.id = d.id
             /\ Len(lastOp'.reqs) = 2 => remote' = remote]_vars

C13_FailedCreate ==
    lastOp.op = "Create" /\ lastOp.err # NoError =>
        LET body == lastOp.reqs[1].body IN
        /\ d.name = body.Name
        /\ d.description = body.Description
        /\ d.asset_group_id = body.AssetGroupId
        /\ d.business_unit_id = BodyUnit(body)
        /\ d.business_impact = body.BusinessImpact
        /\ IF Len(lastOp.reqs) = 1
           THEN d.id = ""
           ELSE /\ PostAccepted(lastOp.resps[1])
                /\ d.id = StringAt(lastOp.resps[1].obj, "Id")
                /\ lastOp.err \in FinalReadErrors

\* C13, amended: no operation undoes what it has done.  A Read or a Delete
\* that returns an error leaves local identity and attributes as they were.
\* A Create or an Update that returns an error leaves the attributes at the
\* values it was called with; when the error is that of its POST or PUT,
\* local identity is as before (empty, for Create); when the POST or PUT was
\* accepted and the Read that follows fails, Create returns that error with
\* local identity set to the server-assigned id and the application left on
\* the server, and Update returns it with the remote application changed.
C13_NoRollback ==
    /\ [](C13_FailedCreate)
    /\ [][/\ (Fails("Read", lastOp, lastOp') \/ Fails("Delete", lastOp, lastOp'))
             => d' = d
          /\ Fails("Update", lastOp, lastOp') =>
               /\ d' = PlannedData(d, lastOp'.reqs[1].body)
               /\ Len(lastOp'.reqs) = 2 =>
                    /\ lastOp'.err \in FinalReadErrors
                    /\ remote # NoApp
                    /\ remote' = PutApp(remote, lastOp'.reqs[1].body)
          /\ (Fails("Create", lastOp, lastOp') /\ Len(lastOp'.reqs) = 2) =>
               /\ remote' # NoApp
               /\ remote'.Id = d'.id
               /\ d'.id # d.id]_vars

\* a Create whose POST was accepted and whose Read was answered 500
C13_Witness ==
    /\ lastOp.op = "Create"
    /\ Len(lastOp.reqs) = 2
    /\ lastOp.err = ErrReadStatus
    /\ d.id # ""
    /\ remote # NoApp
    /\ remote.Id = d.id

----------------------------------------------------------------------------
(* C14: the requests of one operation *)

\* the handler accepted the answer to its PUT
PutAccepted(resp) == resp.transport /\ resp.status = StatusOK

\* C14 as stated: every operation sends exactly one HTTP request.
C14_SingleRoundTrip == lastOp.op # "none" => Len(lastOp.reqs) = 1

\* C14, amended: the login, Read, Delete and each data-source read send
\* exactly one request.  Create and Update send their POST or PUT and, when
\* the handler accepted its answer, exactly one further request, the GET of
\* the Read they end in, after that answer has arrived; when it did not,
\* they send nothing more.  No request is sent again, and no request is sent
\* before the one before it has been answered or has failed.
C14_RoundTrips ==
    lastOp.op # "none" =>
        /\ Len(lastOp.resps) = Len(lastOp.reqs)
        /\ IF lastOp.op \in {"Create", "Update"}
           THEN LET accepted == IF lastOp.op = "Create"
                                THEN PostAccepted(lastOp.resps[1])
                                ELSE PutAccepted(lastOp.resps[1])
                IN  /\ Len(lastOp.reqs) = IF accepted THEN 2 ELSE 1
                    /\ lastOp.reqs[1].method =
                           IF lastOp.op = "Create" THEN "POST" ELSE "PUT"
                    /\ accepted => lastOp.reqs[2].method = "GET"
           ELSE Len(lastOp.reqs) = 1

\* an Update whose PUT was accepted, followed by its GET
C14_Witness ==
    /\ lastOp.op = "Update"
    /\ Len(lastOp.reqs) = 2
    /\ lastOp.reqs[1].method = "PUT"
    /\ lastOp.reqs[2].method = "GET"
    /\ lastOp.err = NoError

----------------------------------------------------------------------------
(* C15: where the requests go and what they carry *)

\* the paths the handlers address below the endpoint
ApiPaths ==
    {"/api/v4/Apps", "/api/v4/AssetGroups", "/api/v4/BusinessUnits"}
    \cup {"/api/v4/Apps/" \o AppId(n) : n \in 1..NumIds}

C15_Requests ==
    /\ lastOp.op = "Configure" =>
         /\ lastOp.reqs[1].auth = ""
         /\ lastOp.err = NoError =>
              /\ session.ApiToken = TokenOf(lastOp.resps[1])
              /\ lastOp.reqs[1].url =
                     session.ApiEndpoint \o "/api/v4/Account/ApiKeyLogin"
    /\ lastOp.op \notin {"none", "Configure"} =>
         /\ session.ApiToken # ""
         /\ \A i \in 1..Len(lastOp.reqs) :
              /\ lastOp.reqs[i].auth = "Bearer " \o session.ApiToken
              /\ \E path \in ApiPaths :
                   lastOp.reqs[i].url = session.ApiEndpoint \o path

\* C15: every request of an Application operation or a data-source read
\* carries Authorization: Bearer <token>, the token being the one the login
\* of this provider instance returned, and is addressed to the endpoint that
\* login was sent to; the Session does not change after the login; the login
\* request carries no Authorization header.
C15_BearerOfSession ==
    /\ [](C15_Requests)
    /\ [][phase = "configured" => session' = session]_vars

\* both requests of a Create under the second endpoint and the second token
C15_Witness ==
    /\ lastOp.op = "Create"
    /\ Len(lastOp.reqs) = 2
    /\ session.ApiEndpoint = "https://eu.cloud.appscan.com"
    /\ session.ApiToken = "tokB"
    /\ lastOp.reqs[1].auth = "Bearer tokB"
    /\ lastOp.reqs[2].auth = "Bearer tokB"
    /\ lastOp.reqs[2].url = "https://eu.cloud.appscan.com/api/v4/Apps"

----------------------------------------------------------------------------
(* C16: business_impact and BusinessUnitId in the request bodies *)

\* the configuration a request body was built from
ConfigBehind(body) ==
    CHOOSE cfg \in Configs :
        cfg.name = body.Name /\ cfg.description = body.Description

\* C16: business_impact is "Unspecified" when the configuration omits it,
\* and a configuration that sets it outside Unspecified, Low, Medium, High,
\* Critical never reaches a handler; so every Create and Update body carries
\* a BusinessImpact that is one of the five, and carries BusinessUnitId
\* exactly when business_unit_id is set to a non-empty value.
C16_ImpactAndUnit ==
    lastOp.op \in {"Create", "Update"} =>
        LET body == lastOp.reqs[1].body
            cfg == ConfigBehind(body)
        IN  /\ "BusinessImpact" \in DOMAIN body
            /\ body.BusinessImpact \in
                   {"Unspecified", "Low", "Medium", "High", "Critical"}
            /\ cfg.business_impact = "" => body.BusinessImpact = "Unspecified"
            /\ cfg.business_impact # "" =>
                   body.BusinessImpact = cfg.business_impact
            /\ ("BusinessUnitId" \in DOMAIN body) <=> (cfg.business_unit_id # "")
            /\ "BusinessUnitId" \in DOMAIN body =>
                   body.BusinessUnitId = cfg.business_unit_id

\* an Update from a configuration with neither business_impact nor
\* business_unit_id
C16_Witness ==
    /\ lastOp.op = "Update"
    /\ ConfigBehind(lastOp.reqs[1].body).business_impact = ""
    /\ lastOp.reqs[1].body.BusinessImpact = "Unspecified"
    /\ "BusinessUnitId" \notin DOMAIN lastOp.reqs[1].body

----------------------------------------------------------------------------
(* C17: what Provider() registers *)

\* ResourcesMap of Provider(): type name |-> constructor
ResourcesMap == [appscan_application |-> "resourceAppScanApplication"]

\* DataSourcesMap of Provider(): type name |-> constructor
DataSourcesMap ==
    [appscan_asset_groups |-> "dataSourceAssetGroups",
     appscan_asset_group |-> "dataSourceAssetGroup"]

\* the constructors the host can reach through a configured provider
Registered == {DataSourcesMap[t] : t \in DOMAIN DataSourcesMap}

\* C17: the data sources a configured provider offers the host contain the
\* business-unit single lookup alongside the asset-group list and the
\* asset-group single lookup.
C17_BusinessUnitRegistered ==
    phase = "configured" =>
        /\ "dataSourceAssetGroups" \in Registered
        /\ "dataSourceAssetGroup" \in Registered
        /\ "dataSourceBusinessUnit" \in Registered

----------------------------------------------------------------------------
(* C18: what Read takes from the item *)

\* local attribute, field of the item
ReadFields ==
    {<<"name", "Name">>, <<"description", "Description">>,
     <<"asset_group_id", "AssetGroupId">>,
     <<"business_unit_id", "BusinessUnitId">>,
     <<"business_impact", "BusinessImpact">>}

\* C18: a Read answered with at least one item returns success, keeps local
\* identity, and for each of name, description, asset_group_id,
\* business_unit_id and business_impact sets the local attribute to the
\* field of the first item when the item carries it as a string, and leaves
\* the attribute at its previous value when the field is absent or is not a
\* string.
C18_ReadAppliesPresentFields ==
    [][(lastOp'.op = "Read" /\ SawItem(lastOp'.resps[1])) =>
          LET item == lastOp'.resps[1].items[1] IN
          /\ lastOp'.err = NoError
          /\ d'.id = d.id
          /\ \A f \in ReadFields :
               d'[f[1]] = IF HasString(item, f[2]) THEN StringAt(item, f[2])
                          ELSE d[f[1]]]_vars

\* a Read whose item has no BusinessUnitId and a Description that is not a
\* string: both attributes keep what they held
C18_Witness ==
    /\ lastOp.op = "Read"
    /\ SawItem(lastOp.resps[1])
    /\ HasString(lastOp.resps[1].items[1], "Name")
    /\ "BusinessUnitId" \notin DOMAIN lastOp.resps[1].items[1]
    /\ "Description" \in DOMAIN lastOp.resps[1].items[1]
    /\ ~HasString(lastOp.resps[1].items[1], "Description")
    /\ d.business_unit_id = "BU1"
    /\ d.description = "desc"

----------------------------------------------------------------------------
(* C19: an application that is gone on the remote side *)

AnsweredNotFound(resp) == resp.transport /\ resp.status = StatusNotFound

\* the application local identity names is not on the server any more
RemoteGone == d.id # "" /\ (remote = NoApp \/ remote.Id # d.id)

C19_NotFoundFails ==
    /\ (lastOp.op = "Delete" /\ AnsweredNotFound(lastOp.resps[1])) =>
          /\ DeleteFailed(lastOp.err)
          /\ d.id # ""
    /\ (lastOp.op = "Update" /\ AnsweredNotFound(lastOp.resps[1])) =>
          /\ UpdateFailed(lastOp.err)
          /\ Len(lastOp.reqs) = 1
          /\ d.id # ""

\* C19: a Delete answered 404 returns DeleteFailed and an Update answered 404
\* returns UpdateFailed, each leaving local identity non-empty; from a state
\* where the remote application is gone, local identity becomes empty only
\* by a Read that is told so (404, or no Items), never by Delete or Update.
C19_AbsenceOnlyThroughRead ==
    /\ [](C19_NotFoundFails)
    /\ [][(RemoteGone /\ d'.id = "") =>
            (lastOp'.op = "Read" /\ SawNothing(lastOp'.resps[1]))]_vars

\* the application was removed remotely and the Delete is answered 404
C19_Witness ==
    /\ lastOp.op = "Delete"
    /\ AnsweredNotFound(lastOp.resps[1])
    /\ remote = NoApp
    /\ d.id # ""
    /\ DeleteFailed(lastOp.err)

----------------------------------------------------------------------------
(* C20: an Update planned without a business unit *)

\* the Update was called with an empty business_unit_id
UnitCleared(rec) ==
    rec.op = "Update" /\ ConfigBehind(rec.reqs[1].body).business_unit_id = ""

C20_BodyOmitsUnit ==
    UnitCleared(lastOp) => "BusinessUnitId" \notin DOMAIN lastOp.reqs[1].body

\* C20: an Update called with an empty business_unit_id sends a body without
\* BusinessUnitId; the remote API, keeping the fields a PUT does not mention,
\* holds the business unit it held before; and when the Read that follows
\* returns the application with its BusinessUnitId, local business_unit_id
\* is that previous, non-empty value again.
C20_UpdateCannotClearUnit ==
    /\ [](C20_BodyOmitsUnit)
    /\ [][(/\ UnitCleared(lastOp')
           /\ remote # NoApp
           /\ remote' # NoApp
           /\ remote.BusinessUnitId # "") =>
            /\ remote'.BusinessUnitId = remote.BusinessUnitId
            /\ (/\ Len(lastOp'.resps) = 2
                /\ SawItem(lastOp'.resps[2])
                /\ HasString(lastOp'.resps[2].items[1], "BusinessUnitId")) =>
                 d'.business_unit_id = remote.BusinessUnitId]_vars

\* planned empty, stored BU1, read back as BU1
C20_Witness ==
    /\ UnitCleared(lastOp)
    /\ lastOp.err = NoError
    /\ Len(lastOp.resps) = 2
    /\ SawItem(lastOp.resps[2])
    /\ HasString(lastOp.resps[2].items[1], "BusinessUnitId")
    /\ remote # NoApp
    /\ remote.BusinessUnitId = "BU1"
    /\ d.business_unit_id = "BU1"

====
